---- MODULE Spec2Model ----
(***************************************************************************)
(* Public-subnet classification of billdry/public-python-examples.         *)
(*                                                                         *)
(* getPublicSubnets exists in three files.  The copies in                  *)
(* identify-public-ec2-instances-lambda.py and                             *)
(* identify-public-elb-instances-lambda.py are the same code (lines 40-89  *)
(* of both files); the copy in list-resources-per-subnet-lambda.py (lines  *)
(* 21-59) differs.  The first is modelled by the specification Spec, the   *)
(* second by SpecLister.                                                   *)
(*                                                                         *)
(* The AWS account (the answers of describe_route_tables and               *)
(* describe_subnets) is the static environment, chosen in Init.  Whether a *)
(* describe call raises botocore.exceptions.ClientError is chosen when the *)
(* call is made.                                                           *)
(***************************************************************************)
EXTENDS Integers, Sequences, FiniteSets, TLC

(***************************************************************************)
(* Bounds of the environment.                                              *)
(***************************************************************************)
\* Largest number of route tables describe_route_tables returns.
MaxTables == 2
\* The same, where getPublicSubnets is called by a lambda_handler.
MaxHandlerTables == 1

(***************************************************************************)
(* Values of the environment.                                              *)
(***************************************************************************)
VpcIds == {"vpc-1", "vpc-2"}
SubnetIds == {"subnet-a", "subnet-b"}

\* Gateway identifiers are character sequences, so that the regular
\* expression of the source can be applied to them.
IgwId == <<"i", "g", "w", "-", "x">>
LocalId == <<"l", "o", "c", "a", "l">>

LocalRoute == [DestinationCidrBlock |-> "10.0.0.0/16", GatewayId |-> LocalId]
\* A route to a NAT gateway carries NatGatewayId and no GatewayId.
NatRoute == [DestinationCidrBlock |-> "10.1.0.0/16", NatGatewayId |-> "nat-1"]
IgwRoute == [DestinationCidrBlock |-> "0.0.0.0/0", GatewayId |-> IgwId]

Range(s) == {s[i] : i \in 1..Len(s)}

\* The Routes lists of the environment: the local route every table has and
\* a NAT route, followed by no, one or two routes to an internet gateway.
RouteLists ==
    { <<LocalRoute, NatRoute>>,
      <<LocalRoute, NatRoute, IgwRoute>>,
      <<LocalRoute, NatRoute, IgwRoute, IgwRoute>> }

\* The association entry of a main route table, and an explicit association.
MainAssociation == [Main |-> TRUE]
SubnetAssociation(s) == [Main |-> FALSE, SubnetId |-> s]

\* The explicit associations of a table, subnet-a before subnet-b.
ExplicitLists ==
    { <<>>,
      <<SubnetAssociation("subnet-a")>>,
      <<SubnetAssociation("subnet-b")>>,
      <<SubnetAssociation("subnet-a"), SubnetAssociation("subnet-b")>> }

\* Associations lists: the explicit associations alone (the empty list is a
\* table associated with nothing), or with the main entry before or after
\* them.
AssociationLists ==
    ExplicitLists
    \cup {<<MainAssociation>> \o el : el \in ExplicitLists}
    \cup {el \o <<MainAssociation>> : el \in ExplicitLists}

RouteTableRecords ==
    [VpcId : VpcIds, Associations : AssociationLists, Routes : RouteLists]

\* The answers of describe_subnets: subnet-a in vpc-1; subnet-b in vpc-1, in
\* vpc-2, or not in the answer at all.
SubnetResponses ==
    { <<[SubnetId |-> "subnet-a", VpcId |-> "vpc-1"],
        [SubnetId |-> "subnet-b", VpcId |-> "vpc-1"]>>,
      <<[SubnetId |-> "subnet-a", VpcId |-> "vpc-1"],
        [SubnetId |-> "subnet-b", VpcId |-> "vpc-2"]>>,
      <<[SubnetId |-> "subnet-a", VpcId |-> "vpc-1"]>> }

\* The subnet identifiers an Associations list names.
ExplicitSubnets(rt) ==
    {rt.Associations[i].SubnetId :
        i \in {j \in 1..Len(rt.Associations) : "SubnetId" \in DOMAIN rt.Associations[j]}}

\* The table carries the main flag on some association entry.
IsMainTable(rt) == \E i \in 1..Len(rt.Associations) : rt.Associations[i].Main

\* The table has a route to an internet gateway (stated on the environment's
\* values, not through the source's regular expression).
HasInternetRoute(rt) == \E i \in 1..Len(rt.Routes) : rt.Routes[i] = IgwRoute

\* The VPC of a subnet in a describe_subnets answer ("none" when absent).
VpcOf(subnets, s) ==
    IF \E i \in 1..Len(subnets) : subnets[i].SubnetId = s
    THEN (CHOOSE r \in Range(subnets) : r.SubnetId = s).VpcId
    ELSE "none"

\* What AWS guarantees of an account: a subnet is associated with at most one
\* route table, a VPC has at most one main route table, and a route table is
\* associated only with subnets of its own VPC.  A subnet named by an
\* association may be missing from the describe_subnets answer (it was
\* deleted between the two describe calls).
WellFormed(subnets, tables) ==
    /\ \A i, j \in 1..Len(tables) :
          i < j =>
            /\ ExplicitSubnets(tables[i]) \cap ExplicitSubnets(tables[j]) = {}
            /\ ~ (/\ IsMainTable(tables[i]) /\ IsMainTable(tables[j])
                  /\ tables[i].VpcId = tables[j].VpcId)
    /\ \A i \in 1..Len(tables) :
          \A s \in ExplicitSubnets(tables[i]) :
              VpcOf(subnets, s) \in {"none", tables[i].VpcId}

(***************************************************************************)
(* Helpers on Python lists.                                                *)
(***************************************************************************)
\* list.remove(x) on a list that contains x: the first occurrence goes.
RECURSIVE RemoveFirst(_, _)
RemoveFirst(list, x) ==
    IF list = <<>> THEN <<>>
    ELSE IF Head(list) = x THEN Tail(list)
    ELSE <<Head(list)>> \o RemoveFirst(Tail(list), x)

\* re.search("^igw-", gatewayId)
IgwPattern == <<"i", "g", "w", "-">>
MatchesIgw(gatewayId) ==
    /\ Len(gatewayId) >= Len(IgwPattern)
    /\ SubSeq(gatewayId, 1, Len(IgwPattern)) = IgwPattern

(***************************************************************************)
(* One iteration of the loop over rtblResponse['RouteTables'] in the EC2   *)
(* and ELB evaluators, as a function of the locals it reads and writes.    *)
(* A value of the iteration is [exc, vpcSubnets, candidateSubnets,         *)
(* publicSubnets]; exc names the exception that ended it ("none": none).   *)
(***************************************************************************)
\* Variant: removal that never raises (a subnet missing from the pool is
\* passed over).
CanRemoveAlways(list, subnetId) == TRUE

\* vpcSubnets[vpcId].remove(subnetId) raises ValueError unless the subnet is
\* in the list.
CanRemove(list, subnetId) == subnetId \in Range(list)

\* Lines 65-69: the explicitly associated subnets become candidates and
\* leave the pool of their VPC.
RECURSIVE ExplicitAssociations(_, _, _)
ExplicitAssociations(routeTable, i, st) ==
    IF i > Len(routeTable.Associations) \/ st.exc # "none" THEN st
    ELSE LET association == routeTable.Associations[i]
             pool == st.vpcSubnets[routeTable.VpcId]
         IN  IF /\ "SubnetId" \in DOMAIN association
                /\ association.SubnetId \notin Range(st.candidateSubnets)
             THEN ExplicitAssociations(routeTable, i + 1,
                    [st EXCEPT
                       !.candidateSubnets = Append(@, association.SubnetId),
                       !.vpcSubnets[routeTable.VpcId] =
                           RemoveFirst(@, association.SubnetId),
                       !.exc = IF CanRemove(pool, association.SubnetId)
                               THEN "none" ELSE "ValueError"])
             ELSE ExplicitAssociations(routeTable, i + 1, st)

\* Variant: every route table is taken for a main table.
AnyTableIsMain(routeTable) == TRUE

\* Line 72: routeTable['Associations'][0]['Main'], evaluated once the
\* Associations list is known not to be empty.
FirstAssociationIsMain(routeTable) == routeTable.Associations[1].Main

\* Lines 72-75: for a main table, the subnets left in the pool of its VPC
\* become candidates, unless they are in publicSubnets already.
ImplicitAssociations(routeTable, st) ==
    IF st.exc # "none" THEN st
    ELSE IF Len(routeTable.Associations) = 0 THEN [st EXCEPT !.exc = "IndexError"]
    ELSE IF FirstAssociationIsMain(routeTable)
    THEN [st EXCEPT !.candidateSubnets =
            @ \o SelectSeq(st.vpcSubnets[routeTable.VpcId],
                           LAMBDA implicitSubnet :
                               implicitSubnet \notin Range(st.publicSubnets))]
    ELSE st

\* Lines 78-81: publicSubnets is extended by the candidates once for every
\* route whose GatewayId matches ^igw-.
RECURSIVE InternetRoutes(_, _, _)
InternetRoutes(routeTable, i, st) ==
    IF i > Len(routeTable.Routes) \/ st.exc # "none" THEN st
    ELSE LET route == routeTable.Routes[i]
         IN  IF "GatewayId" \in DOMAIN route /\ MatchesIgw(route.GatewayId)
             THEN InternetRoutes(routeTable, i + 1,
                    [st EXCEPT !.publicSubnets = @ \o st.candidateSubnets])
             ELSE InternetRoutes(routeTable, i + 1, st)

\* Line 83: candidateSubnets.clear()
ClearCandidates(st) ==
    IF st.exc # "none" THEN st ELSE [st EXCEPT !.candidateSubnets = <<>>]

\* Lines 62-83, one route table.
Iteration(routeTable, st) ==
    ClearCandidates(
        InternetRoutes(routeTable, 1,
            ImplicitAssociations(routeTable,
                ExplicitAssociations(routeTable, 1, st))))

\* Lines 62-83, all route tables of a list in order, up to the first
\* exception.
RECURSIVE RunLoop(_, _)
RunLoop(tables, st) ==
    IF tables = <<>> \/ st.exc # "none" THEN st
    ELSE RunLoop(Tail(tables), Iteration(Head(tables), st))

\* Lines 51-54: vpcSubnets, a defaultdict(list): the subnets of every VPC in
\* the order of the describe_subnets answer, the empty list for a VPC without.
BuildVpcSubnets(subnets) ==
    [v \in VpcIds |->
        LET mine == SelectSeq(subnets, LAMBDA subnet : subnet.VpcId = v)
        IN  [i \in 1..Len(mine) |-> mine[i].SubnetId]]

(***************************************************************************)
(* State.                                                                  *)
(***************************************************************************)
VARIABLES
    account,           \* the AWS account: [Subnets, RouteTables], never changed
    run,               \* "first" or "second" invocation of getPublicSubnets
    pc,                \* the position of the invocation
    bound,             \* the names of the locals the invocation has assigned
    rtblResponse,      \* rtblResponse['RouteTables']
    snetResponse,      \* snetResponse['Subnets']
    vpcSubnets,        \* the pool: VpcId -> list of SubnetId
    candidateSubnets,  \* the list created by candidateSubnets = list()
    candidateRef,      \* the list the name candidateSubnets refers to: "own", or
                       \* the VpcId whose pool it was bound to
    publicSubnets,     \* the result under construction
    next,              \* index of the next route table of the loop
    exc,               \* the exception raised and not yet handled, or "none"
    fault,             \* the describe call that failed in this invocation
    printed,           \* what the invocations have printed
    returned,          \* the value the invocation returned
    firstOutcome,      \* how the first invocation ended
    \* lambda_handler of the EC2 and ELB evaluators
    lambdaFn,          \* the deployed function: "ec2" or "elb" ("none": no handler)
    event,             \* the configuration item of the invoking event
    awsInstances,      \* the Reservations describe_instances answers with
    awsLoadBalancers,  \* the LoadBalancers describe_load_balancers answers with
    hpc,               \* the position of the handler
    pubSubs,           \* pubSubs
    myEc2Subnet,       \* myEc2Subnet
    myElbSubnets,      \* myElbSubnets
    complianceValue,   \* complianceValue
    evaluations,       \* the evaluations put_evaluations has received
    hexc,              \* the exception that left the handler, or "none"
    \* resource-auto-tagger.py
    tpc,               \* the position of the tagger ("none": no tagger)
    tagEnv,            \* the parsed event and the answers of IAM, SSM and EC2
    resource_tags,     \* resource_tags of lambda_handler
    item,              \* index of the item of instances_set being tagged
    volumes,           \* response["Volumes"] of describe_volumes
    volume,            \* index of the next volume of the inner loop
    applied,           \* resource id -> the tags create_tags has applied to it
    result,            \* what set_ec2_instance_attached_vols_tags returned
    reports,           \* the status reports lambda_handler has printed
    \* report-s3-cw-metrics.py
    rpc,               \* the position of the reporter ("none": no reporter)
    typed,             \* what the user typed at the three prompts
    region_name,       \* region_name
    start_time,        \* start_time
    end_time,          \* end_time
    profile,           \* index of the profile of the outer loop
    bucket_list,       \* bucket_list
    bucket,            \* index of the bucket of the inner loop
    queries,           \* the get_metric_statistics calls made
    lines              \* the lines the reporter has printed

handlerVars ==
    <<lambdaFn, event, awsInstances, awsLoadBalancers, hpc, pubSubs, myEc2Subnet,
      myElbSubnets, complianceValue, evaluations, hexc>>

taggerVars ==
    <<tpc, tagEnv, resource_tags, item, volumes, volume, applied, result, reports>>

reporterVars ==
    <<rpc, typed, region_name, start_time, end_time, profile, bucket_list, bucket,
      queries, lines>>

\* The state of the programs that call getPublicSubnets or stand beside it.
callers == <<handlerVars, taggerVars, reporterVars>>

vars ==
    <<account, run, pc, bound, rtblResponse, snetResponse, vpcSubnets,
      candidateSubnets, candidateRef, publicSubnets, next, exc, fault, printed,
      returned, firstOutcome, callers>>

locals ==
    <<rtblResponse, snetResponse, vpcSubnets, candidateSubnets, candidateRef,
      publicSubnets, next>>

ErrorMessage == "Boto3 API returned error: "

NoOutcome == [pc |-> "idle", returned |-> <<>>, exc |-> "none", fault |-> "none"]
Outcome == [pc |-> pc, returned |-> returned, exc |-> exc, fault |-> fault]

\* The account is any well-formed one of at most maxTables route tables, in
\* any order.
AnyAccount(maxTables) ==
    \E sn \in SubnetResponses, n \in 0..maxTables :
        \E tl \in [1..n -> RouteTableRecords] :
            /\ WellFormed(sn, tl)
            /\ account = [Subnets |-> sn, RouteTables |-> tl]

\* No lambda_handler is part of the run.
NoEvent == [resourceType |-> "none", resourceId |-> "none"]
NoHandler ==
    /\ lambdaFn = "none"
    /\ event = NoEvent
    /\ awsInstances = <<>>
    /\ awsLoadBalancers = <<>>
    /\ hpc = "none"
    /\ pubSubs = <<>>
    /\ myEc2Subnet = "NULL"
    /\ myElbSubnets = <<>>
    /\ complianceValue = "NOT_APPLICABLE"
    /\ evaluations = <<>>
    /\ hexc = "none"

\* The tagger is not part of the run.
NoTagger ==
    /\ tpc = "none"
    /\ tagEnv = <<>>
    /\ resource_tags = <<>>
    /\ item = 1
    /\ volumes = <<>>
    /\ volume = 1
    /\ applied = <<>>
    /\ result = "none"
    /\ reports = <<>>

\* The reporter is not part of the run.
NoReporter ==
    /\ rpc = "none"
    /\ typed = <<>>
    /\ region_name = <<>>
    /\ start_time = <<>>
    /\ end_time = <<>>
    /\ profile = 1
    /\ bucket_list = <<>>
    /\ bucket = 1
    /\ queries = <<>>
    /\ lines = <<>>

\* Nothing of getPublicSubnets has run.
NotEntered ==
    /\ run = "first"
    /\ bound = {}
    /\ rtblResponse = <<>>
    /\ snetResponse = <<>>
    /\ vpcSubnets = [v \in VpcIds |-> <<>>]
    /\ candidateSubnets = <<>>
    /\ candidateRef = "own"
    /\ publicSubnets = <<>>
    /\ next = 1
    /\ exc = "none"
    /\ fault = "none"
    /\ printed = <<>>
    /\ returned = <<>>
    /\ firstOutcome = NoOutcome

Init ==
    /\ AnyAccount(MaxTables)
    /\ pc = "idle"
    /\ NotEntered
    /\ NoHandler
    /\ NoTagger
    /\ NoReporter

(***************************************************************************)
(* getPublicSubnets of the EC2 and ELB evaluators.                         *)
(***************************************************************************)
\* Variant: the result list is not created anew by the call (as a list kept
\* at module level would be).
EnterKeepsResult ==
    /\ pc = "idle"
    /\ bound' = {"publicSubnets"}
    /\ pc' = "describe_route_tables"
    /\ UNCHANGED <<account, callers, run, locals, exc, fault, printed, returned,
                   firstOutcome>>

\* Lines 40-41: the call; publicSubnets = list() before the try block.
Enter ==
    /\ pc = "idle"
    /\ publicSubnets' = <<>>
    /\ bound' = {"publicSubnets"}
    /\ pc' = "describe_route_tables"
    /\ UNCHANGED <<account, callers, run, rtblResponse, snetResponse, vpcSubnets,
                   candidateSubnets, candidateRef, next, exc, fault, printed,
                   returned, firstOutcome>>

\* Lines 45-46: describe_route_tables answers.
DescribeRouteTables ==
    /\ pc = "describe_route_tables"
    /\ rtblResponse' = account.RouteTables
    /\ bound' = bound \cup {"rtblResponse"}
    /\ pc' = "describe_subnets"
    /\ UNCHANGED <<account, callers, run, snetResponse, vpcSubnets, candidateSubnets,
                   candidateRef, publicSubnets, next, exc, fault, printed,
                   returned, firstOutcome>>

\* Line 46: describe_route_tables raises ClientError.
DescribeRouteTablesFails ==
    /\ pc = "describe_route_tables"
    /\ exc' = "ClientError"
    /\ fault' = "describe_route_tables"
    /\ pc' = "except"
    /\ UNCHANGED <<account, callers, run, bound, locals, printed, returned, firstOutcome>>

\* Lines 48-49: describe_subnets answers.
DescribeSubnets ==
    /\ pc = "describe_subnets"
    /\ snetResponse' = account.Subnets
    /\ bound' = bound \cup {"snetResponse"}
    /\ pc' = "group_subnets"
    /\ UNCHANGED <<account, callers, run, rtblResponse, vpcSubnets, candidateSubnets,
                   candidateRef, publicSubnets, next, exc, fault, printed,
                   returned, firstOutcome>>

\* Line 49: describe_subnets raises ClientError.
DescribeSubnetsFails ==
    /\ pc = "describe_subnets"
    /\ exc' = "ClientError"
    /\ fault' = "describe_subnets"
    /\ pc' = "except"
    /\ UNCHANGED <<account, callers, run, bound, locals, printed, returned, firstOutcome>>

\* Lines 51-59: the pool of every VPC, and the empty candidate list.
GroupSubnets ==
    /\ pc = "group_subnets"
    /\ vpcSubnets' = BuildVpcSubnets(snetResponse)
    /\ candidateSubnets' = <<>>
    /\ candidateRef' = "own"
    /\ next' = 1
    /\ bound' = bound \cup {"vpcSubnets", "candidateSubnets"}
    /\ pc' = "loop"
    /\ UNCHANGED <<account, callers, run, rtblResponse, snetResponse, publicSubnets,
                   exc, fault, printed, returned, firstOutcome>>

\* Lines 62-83: the loop body for the next route table.  An exception leaves
\* the try block; the locals keep what they held before the iteration.
NextRouteTable ==
    /\ pc = "loop"
    /\ next <= Len(rtblResponse)
    /\ LET st == Iteration(rtblResponse[next],
                    [exc |-> "none", vpcSubnets |-> vpcSubnets,
                     candidateSubnets |-> candidateSubnets,
                     publicSubnets |-> publicSubnets])
       IN  IF st.exc = "none"
           THEN /\ vpcSubnets' = st.vpcSubnets
                /\ candidateSubnets' = st.candidateSubnets
                /\ publicSubnets' = st.publicSubnets
                /\ next' = next + 1
                /\ UNCHANGED <<pc, exc>>
           ELSE /\ exc' = st.exc
                /\ pc' = "except"
                /\ UNCHANGED <<vpcSubnets, candidateSubnets, publicSubnets, next>>
    /\ UNCHANGED <<account, callers, run, bound, rtblResponse, snetResponse,
                   candidateRef, fault, printed, returned, firstOutcome>>

\* Variant: the handler prints and raises the error again.
ExceptClientErrorReraises ==
    /\ pc = "except"
    /\ exc = "ClientError"
    /\ printed' = Append(printed, ErrorMessage)
    /\ pc' = "raised"
    /\ UNCHANGED <<account, callers, run, bound, locals, exc, fault, returned,
                   firstOutcome>>

\* Variant: the handler empties the result and prints nothing.
ExceptClientErrorSilent ==
    /\ pc = "except"
    /\ exc = "ClientError"
    /\ publicSubnets' = <<>>
    /\ exc' = "none"
    /\ pc' = "return"
    /\ UNCHANGED <<account, callers, run, bound, rtblResponse, snetResponse, vpcSubnets,
                   candidateSubnets, candidateRef, next, fault, printed, returned,
                   firstOutcome>>

\* Lines 85-87: except botocore.exceptions.ClientError: the result is
\* emptied and the error printed; execution goes on to the return.
ExceptClientError ==
    /\ pc = "except"
    /\ exc = "ClientError"
    /\ publicSubnets' = <<>>
    /\ printed' = Append(printed, ErrorMessage)
    /\ exc' = "none"
    /\ pc' = "return"
    /\ UNCHANGED <<account, callers, run, bound, rtblResponse, snetResponse, vpcSubnets,
                   candidateSubnets, candidateRef, next, fault, returned,
                   firstOutcome>>

\* Line 85: an exception of any other class matches no except clause and
\* leaves the function.
Propagate ==
    /\ pc = "except"
    /\ exc # "ClientError"
    /\ pc' = "raised"
    /\ UNCHANGED <<account, callers, run, bound, locals, exc, fault, printed, returned,
                   firstOutcome>>

\* Line 89: return(publicSubnets), after the loop or after the handler.
Return ==
    /\ \/ pc = "return"
       \/ pc = "loop" /\ next > Len(rtblResponse)
    /\ returned' = publicSubnets
    /\ pc' = "returned"
    /\ UNCHANGED <<account, callers, run, bound, locals, exc, fault, printed, firstOutcome>>

\* The function is called again on the same account.  The new frame has
\* assigned nothing; what the model's variables still hold of the first
\* invocation is overwritten only by the assignments of the code.
Reinvoke ==
    /\ run = "first"
    /\ pc \in {"returned", "raised"}
    /\ firstOutcome' = Outcome
    /\ run' = "second"
    /\ pc' = "idle"
    /\ bound' = {}
    /\ exc' = "none"
    /\ fault' = "none"
    /\ returned' = <<>>
    /\ UNCHANGED <<account, callers, locals, printed>>

Next ==
    \/ Enter
    \/ DescribeRouteTables
    \/ DescribeRouteTablesFails
    \/ DescribeSubnets
    \/ DescribeSubnetsFails
    \/ GroupSubnets
    \/ NextRouteTable
    \/ ExceptClientError
    \/ Propagate
    \/ Return
    \/ Reinvoke

Spec == Init /\ [][Next]_vars

(***************************************************************************)
(* getPublicSubnets of list-resources-per-subnet-lambda.py.                *)
(*                                                                         *)
(* The name candidateSubnets is rebound to the pool list of a VPC          *)
(* (candidateSubnets = vpcSubnets[...]): from then on append and clear act *)
(* on that pool.  A value of the iteration is [exc, vpcSubnets,            *)
(* candidateSubnets, candidateRef, publicSubnets].                         *)
(***************************************************************************)
\* The list the name candidateSubnets refers to.
Candidates(st) ==
    IF st.candidateRef = "own" THEN st.candidateSubnets
    ELSE st.vpcSubnets[st.candidateRef]

\* The same list with new contents.
WithCandidates(st, list) ==
    IF st.candidateRef = "own" THEN [st EXCEPT !.candidateSubnets = list]
    ELSE [st EXCEPT !.vpcSubnets[st.candidateRef] = list]

\* Lines 41-42: for a table whose first association is the main entry, the
\* name candidateSubnets is bound to the pool of the table's VPC.
ListerMainTable(routeTable, st) ==
    IF Len(routeTable.Associations) = 0 THEN [st EXCEPT !.exc = "IndexError"]
    ELSE IF routeTable.Associations[1].Main
    THEN [st EXCEPT !.candidateRef = routeTable.VpcId]
    ELSE st

\* Lines 44-46: every explicitly associated subnet is appended.
RECURSIVE ListerExplicitAssociations(_, _, _)
ListerExplicitAssociations(routeTable, i, st) ==
    IF i > Len(routeTable.Associations) \/ st.exc # "none" THEN st
    ELSE LET association == routeTable.Associations[i]
         IN  IF "SubnetId" \in DOMAIN association
             THEN ListerExplicitAssociations(routeTable, i + 1,
                    WithCandidates(st, Append(Candidates(st), association.SubnetId)))
             ELSE ListerExplicitAssociations(routeTable, i + 1, st)

\* Lines 48-51: publicSubnets is extended once for every igw-* route.
RECURSIVE ListerInternetRoutes(_, _, _)
ListerInternetRoutes(routeTable, i, st) ==
    IF i > Len(routeTable.Routes) \/ st.exc # "none" THEN st
    ELSE LET route == routeTable.Routes[i]
         IN  IF "GatewayId" \in DOMAIN route /\ MatchesIgw(route.GatewayId)
             THEN ListerInternetRoutes(routeTable, i + 1,
                    [st EXCEPT !.publicSubnets = @ \o Candidates(st)])
             ELSE ListerInternetRoutes(routeTable, i + 1, st)

\* Line 53: candidateSubnets.clear()
ListerClearCandidates(st) ==
    IF st.exc # "none" THEN st ELSE WithCandidates(st, <<>>)

\* Lines 40-53, one route table.
ListerIteration(routeTable, st) ==
    ListerClearCandidates(
        ListerInternetRoutes(routeTable, 1,
            ListerExplicitAssociations(routeTable, 1,
                ListerMainTable(routeTable, st))))

\* Lines 21-22: the call; nothing is assigned before the try block.
ListerEnter ==
    /\ pc = "idle"
    /\ bound' = {}
    /\ pc' = "describe_route_tables"
    /\ UNCHANGED <<account, callers, run, locals, exc, fault, printed, returned,
                   firstOutcome>>

\* Lines 25-26: describe_route_tables answers.
ListerDescribeRouteTables ==
    /\ pc = "describe_route_tables"
    /\ rtblResponse' = account.RouteTables
    /\ bound' = bound \cup {"rtblResponse"}
    /\ pc' = "describe_subnets"
    /\ UNCHANGED <<account, callers, run, snetResponse, vpcSubnets, candidateSubnets,
                   candidateRef, publicSubnets, next, exc, fault, printed,
                   returned, firstOutcome>>

\* Line 26: describe_route_tables raises ClientError.
ListerDescribeRouteTablesFails ==
    /\ pc = "describe_route_tables"
    /\ exc' = "ClientError"
    /\ fault' = "describe_route_tables"
    /\ pc' = "except"
    /\ UNCHANGED <<account, callers, run, bound, locals, printed, returned, firstOutcome>>

\* Lines 28-29: describe_subnets answers.
ListerDescribeSubnets ==
    /\ pc = "describe_subnets"
    /\ snetResponse' = account.Subnets
    /\ bound' = bound \cup {"snetResponse"}
    /\ pc' = "group_subnets"
    /\ UNCHANGED <<account, callers, run, rtblResponse, vpcSubnets, candidateSubnets,
                   candidateRef, publicSubnets, next, exc, fault, printed,
                   returned, firstOutcome>>

\* Line 29: describe_subnets raises ClientError.
ListerDescribeSubnetsFails ==
    /\ pc = "describe_subnets"
    /\ exc' = "ClientError"
    /\ fault' = "describe_subnets"
    /\ pc' = "except"
    /\ UNCHANGED <<account, callers, run, bound, locals, printed, returned, firstOutcome>>

\* Lines 31-37: the pools, the empty candidate list and, only here, the
\* empty result list.
ListerGroupSubnets ==
    /\ pc = "group_subnets"
    /\ vpcSubnets' = BuildVpcSubnets(snetResponse)
    /\ candidateSubnets' = <<>>
    /\ candidateRef' = "own"
    /\ publicSubnets' = <<>>
    /\ next' = 1
    /\ bound' = bound \cup {"vpcSubnets", "candidateSubnets", "publicSubnets"}
    /\ pc' = "loop"
    /\ UNCHANGED <<account, callers, run, rtblResponse, snetResponse, exc, fault,
                   printed, returned, firstOutcome>>

\* Lines 40-53: the loop body for the next route table.
ListerNextRouteTable ==
    /\ pc = "loop"
    /\ next <= Len(rtblResponse)
    /\ LET st == ListerIteration(rtblResponse[next],
                    [exc |-> "none", vpcSubnets |-> vpcSubnets,
                     candidateSubnets |-> candidateSubnets,
                     candidateRef |-> candidateRef,
                     publicSubnets |-> publicSubnets])
       IN  IF st.exc = "none"
           THEN /\ vpcSubnets' = st.vpcSubnets
                /\ candidateSubnets' = st.candidateSubnets
                /\ candidateRef' = st.candidateRef
                /\ publicSubnets' = st.publicSubnets
                /\ next' = next + 1
                /\ UNCHANGED <<pc, exc>>
           ELSE /\ exc' = st.exc
                /\ pc' = "except"
                /\ UNCHANGED <<vpcSubnets, candidateSubnets, candidateRef,
                               publicSubnets, next>>
    /\ UNCHANGED <<account, callers, run, bound, rtblResponse, snetResponse, fault,
                   printed, returned, firstOutcome>>

\* Lines 55-57: except botocore.exceptions.ClientError.  The first statement
\* of the handler reads the local publicSubnets: where the try block has not
\* assigned it yet, the read raises UnboundLocalError, nothing is printed and
\* the new exception leaves the function.
ListerExceptClientError ==
    /\ pc = "except"
    /\ exc = "ClientError"
    /\ IF "publicSubnets" \in bound
       THEN /\ publicSubnets' = <<>>
            /\ printed' = Append(printed, ErrorMessage)
            /\ exc' = "none"
            /\ pc' = "return"
       ELSE /\ exc' = "UnboundLocalError"
            /\ pc' = "raised"
            /\ UNCHANGED <<publicSubnets, printed>>
    /\ UNCHANGED <<account, callers, run, bound, rtblResponse, snetResponse, vpcSubnets,
                   candidateSubnets, candidateRef, next, fault, returned,
                   firstOutcome>>

\* Line 55: an exception of any other class leaves the function.
ListerPropagate ==
    /\ pc = "except"
    /\ exc # "ClientError"
    /\ pc' = "raised"
    /\ UNCHANGED <<account, callers, run, bound, locals, exc, fault, printed, returned,
                   firstOutcome>>

\* Line 59: return publicSubnets.
ListerReturn ==
    /\ \/ pc = "return"
       \/ pc = "loop" /\ next > Len(rtblResponse)
    /\ returned' = publicSubnets
    /\ pc' = "returned"
    /\ UNCHANGED <<account, callers, run, bound, locals, exc, fault, printed, firstOutcome>>

NextLister ==
    \/ ListerEnter
    \/ ListerDescribeRouteTables
    \/ ListerDescribeRouteTablesFails
    \/ ListerDescribeSubnets
    \/ ListerDescribeSubnetsFails
    \/ ListerGroupSubnets
    \/ ListerNextRouteTable
    \/ ListerExceptClientError
    \/ ListerPropagate
    \/ ListerReturn

SpecLister == Init /\ [][NextLister]_vars

(***************************************************************************)
(* lambda_handler of identify-public-ec2-instances-lambda.py (lines        *)
(* 143-176) with getEc2InstanceSubnet (119-141), and of                    *)
(* identify-public-elb-instances-lambda.py (lines 114-154) with            *)
(* getElbInstanceSubnet (94-112).  lambdaFn says which of the two runs.    *)
(* The call of getPublicSubnets is made of the actions above.              *)
(***************************************************************************)
Ec2InstanceType == "AWS::EC2::Instance"
LoadBalancerType == "AWS::ElasticLoadBalancingV2::LoadBalancer"
ResourceTypes == {Ec2InstanceType, LoadBalancerType, "AWS::S3::Bucket"}

\* The characters of the subnet identifiers of the environment.  An
\* instance without a subnet is given the empty identifier.
IdChars(id) ==
    CASE id = "subnet-a" -> <<"s", "u", "b", "n", "e", "t", "-", "a">>
      [] id = "subnet-b" -> <<"s", "u", "b", "n", "e", "t", "-", "b">>
      [] OTHER -> <<>>

\* re.search("^subnet-", subnetId)
SubnetPattern == <<"s", "u", "b", "n", "e", "t", "-">>
MatchesSubnet(subnetId) ==
    /\ Len(IdChars(subnetId)) >= Len(SubnetPattern)
    /\ SubSeq(IdChars(subnetId), 1, Len(SubnetPattern)) = SubnetPattern

\* The answers of describe_instances for the resource: no reservation, or
\* one reservation of one instance.
InstanceAnswers ==
    {<<>>} \cup {<<[Instances |-> <<[SubnetId |-> id]>>]>> : id \in SubnetIds \cup {""}}

\* The answers of describe_load_balancers for the resource: no load
\* balancer, or one with one or two availability zones.
LoadBalancerAnswers ==
    { <<>>,
      <<[AvailabilityZones |-> <<[SubnetId |-> "subnet-a"]>>]>>,
      <<[AvailabilityZones |-> <<[SubnetId |-> "subnet-b"]>>]>>,
      <<[AvailabilityZones |-> <<[SubnetId |-> "subnet-a"], [SubnetId |-> "subnet-b"]>>]>> }

\* An invocation of one of the two functions for one configuration item.  A
\* resource of another type is no instance and no load balancer of the
\* account.
InitHandlers ==
    /\ AnyAccount(MaxHandlerTables)
    /\ pc = "not_called"
    /\ NotEntered
    /\ lambdaFn \in {"ec2", "elb"}
    /\ event \in [resourceType : ResourceTypes, resourceId : {"resource-1"}]
    /\ awsInstances \in InstanceAnswers
    /\ awsLoadBalancers \in LoadBalancerAnswers
    /\ (lambdaFn # "ec2" \/ event.resourceType # Ec2InstanceType) => awsInstances = <<>>
    /\ (lambdaFn # "elb" \/ event.resourceType # LoadBalancerType) => awsLoadBalancers = <<>>
    /\ hpc = "start"
    /\ pubSubs = <<>>
    /\ myEc2Subnet = "NULL"
    /\ myElbSubnets = <<>>
    /\ complianceValue = "NOT_APPLICABLE"
    /\ evaluations = <<>>
    /\ hexc = "none"
    /\ NoTagger
    /\ NoReporter

gpsVars ==
    <<run, bound, locals, exc, fault, returned, firstOutcome>>

\* EC2 lines 144-151, ELB lines 115-123: the initial complianceValue, the
\* fields of the event, and the call of getPublicSubnets.
HandlerStart ==
    /\ hpc = "start"
    /\ complianceValue' = "NOT_APPLICABLE"
    /\ pc' = "idle"
    /\ hpc' = "getPublicSubnets"
    /\ UNCHANGED <<account, gpsVars, taggerVars, reporterVars, printed, lambdaFn, event, awsInstances,
                   awsLoadBalancers, pubSubs, myEc2Subnet, myElbSubnets,
                   evaluations, hexc>>

\* EC2 line 151, ELB line 123: pubSubs = getPublicSubnets(region)
HandlerGotPublicSubnets ==
    /\ hpc = "getPublicSubnets"
    /\ pc = "returned"
    /\ pubSubs' = returned
    /\ hpc' = "getSubnet"
    /\ UNCHANGED <<account, gpsVars, taggerVars, reporterVars, pc, printed, lambdaFn, event, awsInstances,
                   awsLoadBalancers, myEc2Subnet, myElbSubnets, complianceValue,
                   evaluations, hexc>>

\* EC2 line 151, ELB line 123: an exception that left getPublicSubnets leaves
\* the handler, which has no try block.
HandlerCallRaised ==
    /\ hpc = "getPublicSubnets"
    /\ pc = "raised"
    /\ hexc' = exc
    /\ hpc' = "raised"
    /\ UNCHANGED <<account, gpsVars, taggerVars, reporterVars, pc, printed, lambdaFn, event, awsInstances,
                   awsLoadBalancers, pubSubs, myEc2Subnet, myElbSubnets,
                   complianceValue, evaluations>>

\* getEc2InstanceSubnet, lines 120 and 137-141: 'NULL' unless the first
\* instance of the first reservation has a SubnetId matching ^subnet-.
Ec2InstanceSubnet(reservations) ==
    IF reservations # <<>> /\ MatchesSubnet(reservations[1].Instances[1].SubnetId)
    THEN reservations[1].Instances[1].SubnetId
    ELSE "NULL"

\* getEc2InstanceSubnet, lines 119-141, describe_instances answering.
Ec2DescribeInstances ==
    /\ lambdaFn = "ec2"
    /\ hpc = "getSubnet"
    /\ myEc2Subnet' = Ec2InstanceSubnet(awsInstances)
    /\ hpc' = "evaluate"
    /\ UNCHANGED <<account, gpsVars, taggerVars, reporterVars, pc, printed, lambdaFn, event, awsInstances,
                   awsLoadBalancers, pubSubs, myElbSubnets, complianceValue,
                   evaluations, hexc>>

\* getEc2InstanceSubnet, lines 121-137, describe_instances raising
\* ClientError: the handler prints the error and goes on to line 137, which
\* reads the local response that was never assigned: UnboundLocalError leaves
\* getEc2InstanceSubnet and the handler.
Ec2DescribeInstancesFails ==
    /\ lambdaFn = "ec2"
    /\ hpc = "getSubnet"
    /\ printed' = Append(printed, ErrorMessage)
    /\ hexc' = "UnboundLocalError"
    /\ hpc' = "raised"
    /\ UNCHANGED <<account, gpsVars, taggerVars, reporterVars, pc, lambdaFn, event, awsInstances,
                   awsLoadBalancers, pubSubs, myEc2Subnet, myElbSubnets,
                   complianceValue, evaluations>>

\* getElbInstanceSubnet, lines 107-110: the subnets of the availability zones
\* of every load balancer whose SubnetId matches ^subnet-.
RECURSIVE ElbZoneSubnets(_)
ElbZoneSubnets(zones) ==
    IF zones = <<>> THEN <<>>
    ELSE (IF MatchesSubnet(Head(zones).SubnetId)
          THEN <<Head(zones).SubnetId>> ELSE <<>>) \o ElbZoneSubnets(Tail(zones))

RECURSIVE ElbInstanceSubnets(_)
ElbInstanceSubnets(loadBalancers) ==
    IF loadBalancers = <<>> THEN <<>>
    ELSE ElbZoneSubnets(Head(loadBalancers).AvailabilityZones)
         \o ElbInstanceSubnets(Tail(loadBalancers))

\* getElbInstanceSubnet, lines 94-112, describe_load_balancers answering.
ElbDescribeLoadBalancers ==
    /\ lambdaFn = "elb"
    /\ hpc = "getSubnet"
    /\ myElbSubnets' = ElbInstanceSubnets(awsLoadBalancers)
    /\ hpc' = "evaluate"
    /\ UNCHANGED <<account, gpsVars, taggerVars, reporterVars, pc, printed, lambdaFn, event, awsInstances,
                   awsLoadBalancers, pubSubs, myEc2Subnet, complianceValue,
                   evaluations, hexc>>

\* getElbInstanceSubnet, lines 96-107, describe_load_balancers raising
\* ClientError: printed, then line 107 reads the unassigned local response.
ElbDescribeLoadBalancersFails ==
    /\ lambdaFn = "elb"
    /\ hpc = "getSubnet"
    /\ printed' = Append(printed, ErrorMessage)
    /\ hexc' = "UnboundLocalError"
    /\ hpc' = "raised"
    /\ UNCHANGED <<account, gpsVars, taggerVars, reporterVars, pc, lambdaFn, event, awsInstances,
                   awsLoadBalancers, pubSubs, myEc2Subnet, myElbSubnets,
                   complianceValue, evaluations>>

\* What the handlers print with the compliance value (EC2 lines 158 and 161,
\* ELB lines 136 and 139).
ComplianceMessage(value) ==
    IF value = "NON_COMPLIANT" THEN "resource is NON_COMPLIANT"
    ELSE "resource is COMPLIANT"

\* Variant: the resource type is not looked at.
Ec2ComplianceOfAnyType(resourceType, subnet, publicList) ==
    IF subnet \in Range(publicList) THEN "NON_COMPLIANT" ELSE "COMPLIANT"

\* EC2 lines 154-160: the if / elif / else that sets complianceValue.
Ec2Compliance(resourceType, subnet, publicList) ==
    IF resourceType # Ec2InstanceType THEN "NOT_APPLICABLE"
    ELSE IF subnet \in Range(publicList) THEN "NON_COMPLIANT"
    ELSE "COMPLIANT"

\* EC2 lines 154-161.
Ec2Evaluate ==
    /\ lambdaFn = "ec2"
    /\ hpc = "evaluate"
    /\ complianceValue' = Ec2Compliance(event.resourceType, myEc2Subnet, pubSubs)
    /\ printed' = IF event.resourceType # Ec2InstanceType THEN printed
                  ELSE Append(printed, ComplianceMessage(complianceValue'))
    /\ hpc' = "put_evaluations"
    /\ UNCHANGED <<account, gpsVars, taggerVars, reporterVars, pc, lambdaFn, event, awsInstances,
                   awsLoadBalancers, pubSubs, myEc2Subnet, myElbSubnets,
                   evaluations, hexc>>

\* ELB lines 127-128: the resource type check assigns NOT_APPLICABLE, the
\* value complianceValue has already.
ElbTypeCheck(resourceType, value) ==
    IF resourceType # LoadBalancerType THEN "NOT_APPLICABLE" ELSE value

\* ELB lines 131-133: NON_COMPLIANT if a subnet of the load balancer is in
\* pubSubs.
ElbSubnetCheck(subnets, publicList, value) ==
    IF \E i \in 1..Len(subnets) : subnets[i] \in Range(publicList)
    THEN "NON_COMPLIANT" ELSE value

\* ELB lines 135-138: every value but NON_COMPLIANT becomes COMPLIANT.
ElbFinalValue(value) ==
    IF value = "NON_COMPLIANT" THEN "NON_COMPLIANT" ELSE "COMPLIANT"

\* ELB lines 127-139.
ElbEvaluate ==
    /\ lambdaFn = "elb"
    /\ hpc = "evaluate"
    /\ complianceValue' =
          ElbFinalValue(
              ElbSubnetCheck(myElbSubnets, pubSubs,
                  ElbTypeCheck(event.resourceType, complianceValue)))
    /\ printed' = Append(printed, ComplianceMessage(complianceValue'))
    /\ hpc' = "put_evaluations"
    /\ UNCHANGED <<account, gpsVars, taggerVars, reporterVars, pc, lambdaFn, event, awsInstances,
                   awsLoadBalancers, pubSubs, myEc2Subnet, myElbSubnets,
                   evaluations, hexc>>

\* EC2 lines 164-176, ELB lines 142-154: config.put_evaluations
PutEvaluations ==
    /\ hpc = "put_evaluations"
    /\ evaluations' = Append(evaluations,
          [ComplianceResourceType |-> event.resourceType,
           ComplianceResourceId |-> event.resourceId,
           ComplianceType |-> complianceValue])
    /\ hpc' = "done"
    /\ UNCHANGED <<account, gpsVars, taggerVars, reporterVars, pc, printed, lambdaFn, event, awsInstances,
                   awsLoadBalancers, pubSubs, myEc2Subnet, myElbSubnets,
                   complianceValue, hexc>>

NextHandlers ==
    \/ HandlerStart
    \/ Enter
    \/ DescribeRouteTables
    \/ DescribeRouteTablesFails
    \/ DescribeSubnets
    \/ DescribeSubnetsFails
    \/ GroupSubnets
    \/ NextRouteTable
    \/ ExceptClientError
    \/ Propagate
    \/ Return
    \/ HandlerGotPublicSubnets
    \/ HandlerCallRaised
    \/ Ec2DescribeInstances
    \/ Ec2DescribeInstancesFails
    \/ ElbDescribeLoadBalancers
    \/ ElbDescribeLoadBalancersFails
    \/ Ec2Evaluate
    \/ ElbEvaluate
    \/ PutEvaluations

SpecHandlers == InitHandlers /\ [][NextHandlers]_vars

(***************************************************************************)
(* resource-auto-tagger.py: lambda_handler (lines 223-289) and             *)
(* set_ec2_instance_attached_vols_tags (lines 116-150).  The fields        *)
(* cloudtrail_event_parser returns and the answers of IAM, SSM and EC2 are *)
(* the inputs.  A field that is absent, None or False is the empty text:   *)
(* the handler only tests the fields for truth.                            *)
(***************************************************************************)
Truthy(text) == text # ""

\* No account is read by the tagger and the reporter.
NoAccount == account = [Subnets |-> <<>>, RouteTables |-> <<>>]

InstanceIds == {"i-1", "i-2"}
VolumeIds == {"vol-1", "vol-2", "vol-3"}

\* Lines 153-220: the identity fields cloudtrail_event_parser returns for an
\* IAM user, for an assumed role with and without the user's arn, and for a
\* session that no role issued.
IdentityFields ==
    { [iam_user_name |-> "alice", role_name |-> "", user_id |-> ""],
      [iam_user_name |-> "", role_name |-> "admin", user_id |-> "bob"],
      [iam_user_name |-> "", role_name |-> "admin", user_id |-> ""],
      [iam_user_name |-> "", role_name |-> "", user_id |-> ""] }

\* Lines 215-217: instancesSet of the response elements, or False.
InstancesSets ==
    { [present |-> FALSE, items |-> <<>>],
      [present |-> TRUE, items |-> <<[instanceId |-> "i-1"]>>],
      [present |-> TRUE, items |-> <<[instanceId |-> "i-1"], [instanceId |-> "i-2"]>>] }

\* Lines 153-220: what cloudtrail_event_parser returns; eventTime is a field
\* of every CloudTrail event.
EventFields ==
    { [iam_user_name |-> id.iam_user_name, role_name |-> id.role_name,
       user_id |-> id.user_id, resource_date |-> "2021-03-15T10:00:00Z",
       instances_set |-> set] : id \in IdentityFields, set \in InstancesSets }

\* Lines 37-38 and 60-61: list_role_tags and list_user_tags raise ClientError
\* or answer with the tags of the role or user.
IamAnswers ==
    { [error |-> TRUE, Tags |-> <<>>],
      [error |-> FALSE, Tags |-> <<>>],
      [error |-> FALSE, Tags |-> <<[Key |-> "team", Value |-> "dev"]>>] }

\* Lines 97-100: get_parameters_by_path raises ClientError or answers with the
\* parameters under the path; a Name is given by its components.
SsmAnswers ==
    { [error |-> TRUE, Parameters |-> <<>>],
      [error |-> FALSE, Parameters |-> <<>>],
      [error |-> FALSE,
       Parameters |-> <<[Name |-> <<"auto-tag", "owner", "tag", "project">>,
                         Value |-> "apollo"]>>] }

\* Lines 134-136: the volumes describe_volumes answers with, per instance.
VolumeAnswers ==
    { [i \in InstanceIds |-> IF i = "i-1" THEN first ELSE <<[VolumeId |-> "vol-3"]>>] :
        first \in {<<>>, <<[VolumeId |-> "vol-1"], [VolumeId |-> "vol-2"]>>} }

\* Lines 23-65: get_iam_role_tags and get_iam_user_tags return the Tags of
\* the answer, or False after a ClientError; the handler skips a value that
\* is False or empty, so both are the empty list here.
IamTags(answer) == IF answer.error THEN <<>> ELSE answer.Tags

\* Lines 68-113: get_ssm_parameter_tags makes a tag of the last component of
\* every parameter's Name and its Value; False, here the empty list, without
\* parameters or after a ClientError.
SsmTags(answer) ==
    IF answer.error THEN <<>>
    ELSE [k \in 1..Len(answer.Parameters) |->
            [Key |-> answer.Parameters[k].Name[Len(answer.Parameters[k].Name)],
             Value |-> answer.Parameters[k].Value]]

\* Lines 41, 64, 110: the line a lookup prints when it caught a ClientError.
LookupError(answer) == IF answer.error THEN <<ErrorMessage>> ELSE <<>>

\* Lines 224-266: resource_tags as lambda_handler builds it.
BuildResourceTags(fields, iam, ssm) ==
    LET userTags ==
            IF Truthy(fields.iam_user_name)
            THEN <<[Key |-> "IAM User Name", Value |-> fields.iam_user_name]>>
                 \o IamTags(iam) \o SsmTags(ssm)
            ELSE <<>>
        dateTags ==
            IF Truthy(fields.resource_date)
            THEN <<[Key |-> "Date created", Value |-> fields.resource_date]>>
            ELSE <<>>
        roleTags ==
            IF Truthy(fields.role_name)
            THEN <<[Key |-> "IAM Role Name", Value |-> fields.role_name]>>
                 \o IamTags(iam)
                 \o (IF Truthy(fields.user_id)
                     THEN <<[Key |-> "Created by", Value |-> fields.user_id]>> \o SsmTags(ssm)
                     ELSE <<>>)
            ELSE <<>>
    IN  userTags \o dateTags \o roleTags

\* Lines 224-266: what the lookups print while resource_tags is built.
BuildPrints(fields, iam, ssm) ==
    IF Truthy(fields.iam_user_name) THEN LookupError(iam) \o LookupError(ssm)
    ELSE IF Truthy(fields.role_name)
         THEN LookupError(iam) \o (IF Truthy(fields.user_id) THEN LookupError(ssm) ELSE <<>>)
         ELSE <<>>

NoTagsApplied == "No Tags Applied To: "

\* Lines 272-283 and 286-289: the status reports of lambda_handler.
TaggedReport(id) == [statusCode |-> "200", text |-> "Resource ID", id |-> id]
NotTaggedReport(id) ==
    [statusCode |-> "500", text |-> "No tags applied to Resource ID", id |-> id]
NothingToTagReport ==
    [statusCode |-> "200", text |-> "No Amazon EC2 resources to tag", id |-> "none"]

InitTagger ==
    /\ NoAccount
    /\ pc = "not_called"
    /\ NotEntered
    /\ NoHandler
    /\ NoReporter
    /\ tpc = "start"
    /\ tagEnv \in [fields : EventFields, iam : IamAnswers, ssm : SsmAnswers,
                   Volumes : VolumeAnswers]
    /\ resource_tags = <<>>
    /\ item = 1
    /\ volumes = <<>>
    /\ volume = 1
    /\ applied = [r \in InstanceIds \cup VolumeIds |-> <<>>]
    /\ result = "none"
    /\ reports = <<>>

outsideTagger == <<account, pc, gpsVars, handlerVars, reporterVars>>

\* Line 270: ec2_instance_id = item.get("instanceId")
InstanceItems == tagEnv.fields.instances_set.items
Ec2InstanceId == InstanceItems[item].instanceId

\* Lines 223-268 and 285-289: resource_tags is built; without instances_set
\* the handler reports that there is nothing to tag.
TaggerStart ==
    /\ tpc = "start"
    /\ resource_tags' = BuildResourceTags(tagEnv.fields, tagEnv.iam, tagEnv.ssm)
    /\ printed' = printed \o BuildPrints(tagEnv.fields, tagEnv.iam, tagEnv.ssm)
    /\ IF tagEnv.fields.instances_set.present
       THEN tpc' = "items" /\ reports' = reports
       ELSE tpc' = "done" /\ reports' = Append(reports, NothingToTagReport)
    /\ UNCHANGED <<outsideTagger, tagEnv, item, volumes, volume, applied, result>>

\* Lines 269-271 and 131-133: the next item; create_tags on the instance
\* succeeds.
TagInstance ==
    /\ tpc = "items"
    /\ item <= Len(InstanceItems)
    /\ applied' = [applied EXCEPT ![Ec2InstanceId] = resource_tags]
    /\ tpc' = "describe_volumes"
    /\ UNCHANGED <<outsideTagger, printed, tagEnv, resource_tags, item, volumes,
                   volume, result, reports>>

\* Lines 133 and 147-150: create_tags on the instance raises ClientError;
\* the outer handler prints and returns False.
TagInstanceFails ==
    /\ tpc = "items"
    /\ item <= Len(InstanceItems)
    /\ printed' = printed \o <<ErrorMessage, NoTagsApplied>>
    /\ result' = "False"
    /\ tpc' = "report"
    /\ UNCHANGED <<outsideTagger, tagEnv, resource_tags, item, volumes, volume,
                   applied, reports>>

\* Lines 134-136: describe_volumes answers.
DescribeVolumes ==
    /\ tpc = "describe_volumes"
    /\ volumes' = tagEnv.Volumes[Ec2InstanceId]
    /\ volume' = 1
    /\ tpc' = "volumes"
    /\ UNCHANGED <<outsideTagger, printed, tagEnv, resource_tags, item, applied,
                   result, reports>>

\* Lines 134 and 147-150: describe_volumes raises ClientError; the outer
\* handler prints and returns False.
DescribeVolumesFails ==
    /\ tpc = "describe_volumes"
    /\ printed' = printed \o <<ErrorMessage, NoTagsApplied>>
    /\ result' = "False"
    /\ tpc' = "report"
    /\ UNCHANGED <<outsideTagger, tagEnv, resource_tags, item, volumes, volume,
                   applied, reports>>

\* Lines 138-141: create_tags on the next volume succeeds.
TagVolume ==
    /\ tpc = "volumes"
    /\ volume <= Len(volumes)
    /\ applied' = [applied EXCEPT ![volumes[volume].VolumeId] = resource_tags]
    /\ volume' = volume + 1
    /\ UNCHANGED <<outsideTagger, printed, tagEnv, resource_tags, item, volumes,
                   tpc, result, reports>>

\* Lines 141 and 143-146: create_tags on a volume raises ClientError; the
\* inner handler prints and returns False.
TagVolumeFails ==
    /\ tpc = "volumes"
    /\ volume <= Len(volumes)
    /\ printed' = printed \o <<ErrorMessage, NoTagsApplied>>
    /\ result' = "False"
    /\ tpc' = "report"
    /\ UNCHANGED <<outsideTagger, tagEnv, resource_tags, item, volumes, volume,
                   applied, reports>>

\* Line 142: return True after the loop over the volumes.
TagVolumesReturn ==
    /\ tpc = "volumes"
    /\ volume > Len(volumes)
    /\ result' = "True"
    /\ tpc' = "report"
    /\ UNCHANGED <<outsideTagger, printed, tagEnv, resource_tags, item, volumes,
                   volume, applied, reports>>

\* Lines 271-283: the report of lambda_handler for the item.
TaggerReport ==
    /\ tpc = "report"
    /\ reports' = Append(reports, IF result = "True" THEN TaggedReport(Ec2InstanceId)
                                  ELSE NotTaggedReport(Ec2InstanceId))
    /\ item' = item + 1
    /\ tpc' = "items"
    /\ UNCHANGED <<outsideTagger, printed, tagEnv, resource_tags, volumes, volume,
                   applied, result>>

\* Line 269: the loop over the items ends.
TaggerEnd ==
    /\ tpc = "items"
    /\ item > Len(InstanceItems)
    /\ tpc' = "done"
    /\ UNCHANGED <<outsideTagger, printed, tagEnv, resource_tags, item, volumes,
                   volume, applied, result, reports>>

NextTagger ==
    \/ TaggerStart
    \/ TagInstance
    \/ TagInstanceFails
    \/ DescribeVolumes
    \/ DescribeVolumesFails
    \/ TagVolume
    \/ TagVolumeFails
    \/ TagVolumesReturn
    \/ TaggerReport
    \/ TaggerEnd

SpecTagger == InitTagger /\ [][NextTagger]_vars

(***************************************************************************)
(* report-s3-cw-metrics.py: the prompts (lines 107-122) and the loops over *)
(* the profiles and their buckets (lines 125-165) with get_s3_buckets      *)
(* (32-58) and get_s3_cw_metrics (65-97).  Dates are sequences of          *)
(* characters, so that the pattern of lines 113 and 118 is matched         *)
(* character by character.                                                *)
(***************************************************************************)
Digits == {"0", "1", "2", "3", "4", "5", "6", "7", "8", "9"}

\* Lines 113 and 118: re.search("^[1-2][0-9]{3}-[0-1][0-9]-[0-3][0-9]$", text)
MatchesDate(text) ==
    /\ Len(text) = 10
    /\ text[1] \in {"1", "2"}
    /\ \A k \in 2..4 : text[k] \in Digits
    /\ text[5] = "-"
    /\ text[6] \in {"0", "1"}
    /\ text[7] \in Digits
    /\ text[8] = "-"
    /\ text[9] \in {"0", "1", "2", "3"}
    /\ text[10] \in Digits

\* Lines 114 and 119: "2020-10-01" and "2020-10-02"
DefaultStart == <<"2", "0", "2", "0", "-", "1", "0", "-", "0", "1">>
DefaultEnd == <<"2", "0", "2", "0", "-", "1", "0", "-", "0", "2">>

\* Lines 116 and 121: "T00:00:00Z" and "T23:59:59Z"
StartSuffix == <<"T", "0", "0", ":", "0", "0", ":", "0", "0", "Z">>
EndSuffix == <<"T", "2", "3", ":", "5", "9", ":", "5", "9", "Z">>

\* What the user types at a date prompt: nothing, "2021-03-15",
\* "2021-03-16", "soon" or "2021-3-15".
DateInputs ==
    { <<>>,
      <<"2", "0", "2", "1", "-", "0", "3", "-", "1", "5">>,
      <<"2", "0", "2", "1", "-", "0", "3", "-", "1", "6">>,
      <<"s", "o", "o", "n">>,
      <<"2", "0", "2", "1", "-", "3", "-", "1", "5">> }

\* Lines 102-105: the profiles of ~/.aws/credentials and the regions of
\* CloudWatch.
availableProfiles == <<"default", "audit">>
availableRegions == {"us-east-1", "eu-west-1"}

\* What the user types at the region prompt.
RegionInputs == {"", "eu-west-1", "mars-1"}

\* Line 37: the buckets of a profile; the LocationConstraint of a bucket in
\* us-east-1 is null, here the empty text.
AllBuckets ==
    << [name |-> "bucket-1", LocationConstraint |-> ""],
       [name |-> "bucket-2", LocationConstraint |-> "eu-west-1"] >>

\* Lines 78-89: get_metric_statistics raises ClientError or answers with
\* datapoints.
MetricAnswers ==
    { [error |-> TRUE, Datapoints |-> <<>>],
      [error |-> FALSE, Datapoints |-> <<>>],
      [error |-> FALSE, Datapoints |-> <<[Average |-> 0]>>],
      [error |-> FALSE, Datapoints |-> <<[Average |-> 7]>>] }

\* Lines 109-110: the region used.
ChosenRegion(text) ==
    IF text = "" \/ text \notin availableRegions THEN "us-east-1" ELSE text

\* Lines 113-114 and 118-119: the date used; the default replaces a text
\* that is empty or that matches the pattern.
ChosenDate(text, default) ==
    IF text = <<>> \/ MatchesDate(text) THEN default ELSE text

\* Lines 40-54: the names of the buckets of the region whose location could
\* be read; lines 55-58: the empty list after a ClientError of the listing.
RECURSIVE BucketsOfRegion(_, _, _)
BucketsOfRegion(all, region, denied) ==
    IF all = <<>> THEN <<>>
    ELSE LET b == Head(all)
             here == /\ b.name \notin denied
                     /\ \/ region = b.LocationConstraint
                        \/ b.LocationConstraint = "" /\ region = "us-east-1"
         IN  (IF here THEN <<b.name>> ELSE <<>>) \o BucketsOfRegion(Tail(all), region, denied)

get_s3_buckets(region, listingFails, denied) ==
    IF listingFails THEN <<>> ELSE BucketsOfRegion(AllBuckets, region, denied)

\* Lines 75-97: the Average of the first datapoint, or False (found is
\* FALSE) without datapoints or after a ClientError.
get_s3_cw_metrics(answer) ==
    IF answer.error \/ answer.Datapoints = <<>>
    THEN [found |-> FALSE, Average |-> 0]
    ELSE [found |-> TRUE, Average |-> answer.Datapoints[1].Average]

\* Line 142: the truth of a returned value; False and 0 are false.
HasObjects(number) == number.found /\ number.Average # 0

\* Lines 78-89: the call get_s3_cw_metrics makes.
MetricQuery(metric_name, bucket_name, storage_type) ==
    [MetricName |-> metric_name, BucketName |-> bucket_name,
     StorageType |-> storage_type, StartTime |-> start_time, EndTime |-> end_time,
     region |-> region_name, profile |-> availableProfiles[profile]]

InitReporter ==
    /\ NoAccount
    /\ pc = "not_called"
    /\ NotEntered
    /\ NoHandler
    /\ NoTagger
    /\ rpc = "region"
    /\ typed = [region |-> "", start |-> <<>>, end |-> <<>>]
    /\ region_name = ""
    /\ start_time = <<>>
    /\ end_time = <<>>
    /\ profile = 1
    /\ bucket_list = <<>>
    /\ bucket = 1
    /\ queries = <<>>
    /\ lines = <<>>

outsideReporter == <<account, pc, gpsVars, printed, handlerVars, taggerVars>>

\* Lines 108-111: the region prompt.
InputRegion ==
    /\ rpc = "region"
    /\ \E text \in RegionInputs :
          /\ typed' = [typed EXCEPT !.region = text]
          /\ region_name' = ChosenRegion(text)
    /\ lines' = Append(lines, [text |-> "You entered", value |-> region_name'])
    /\ rpc' = "start"
    /\ UNCHANGED <<outsideReporter, start_time, end_time, profile, bucket_list,
                   bucket, queries>>

\* Lines 112-116: the start date prompt.
InputStartTime ==
    /\ rpc = "start"
    /\ \E text \in DateInputs :
          /\ typed' = [typed EXCEPT !.start = text]
          /\ start_time' = ChosenDate(text, DefaultStart) \o StartSuffix
          /\ lines' = Append(lines, [text |-> "You entered",
                                     value |-> ChosenDate(text, DefaultStart)])
    /\ rpc' = "end"
    /\ UNCHANGED <<outsideReporter, region_name, end_time, profile, bucket_list,
                   bucket, queries>>

\* Lines 117-122: the end date prompt.
InputEndTime ==
    /\ rpc = "end"
    /\ \E text \in DateInputs :
          /\ typed' = [typed EXCEPT !.end = text]
          /\ end_time' = ChosenDate(text, DefaultEnd) \o EndSuffix
          /\ lines' = Append(lines, [text |-> "You entered",
                                     value |-> ChosenDate(text, DefaultEnd)])
    /\ rpc' = "profiles"
    /\ UNCHANGED <<outsideReporter, region_name, start_time, profile, bucket_list,
                   bucket, queries>>

\* Lines 125-130 and 164-165: the next profile and its buckets.
NextProfile ==
    /\ rpc = "profiles"
    /\ profile <= Len(availableProfiles)
    /\ \E listingFails \in BOOLEAN, denied \in SUBSET {"bucket-1", "bucket-2"} :
          bucket_list' = get_s3_buckets(region_name, listingFails, denied)
    /\ bucket' = 1
    /\ IF bucket_list' = <<>>
       THEN /\ lines' = Append(lines, [text |-> "No buckets found",
                                       value |-> availableProfiles[profile]])
            /\ profile' = profile + 1
            /\ rpc' = "profiles"
       ELSE /\ lines' = lines
            /\ profile' = profile
            /\ rpc' = "buckets"
    /\ UNCHANGED <<outsideReporter, typed, region_name, start_time, end_time, queries>>

\* Lines 131-163: the queries for the next bucket and the line printed.
QueryBucket ==
    /\ rpc = "buckets"
    /\ bucket <= Len(bucket_list)
    /\ \E first \in MetricAnswers, second \in MetricAnswers :
          LET number == get_s3_cw_metrics(first)
              size == get_s3_cw_metrics(second)
              objects == MetricQuery("NumberOfObjects", bucket_list[bucket], "AllStorageTypes")
              bytes == MetricQuery("BucketSizeBytes", bucket_list[bucket], "StandardStorage")
          IN  IF HasObjects(number)
              THEN /\ queries' = queries \o <<objects, bytes>>
                   /\ lines' = Append(lines, [text |-> "has total size",
                                              value |-> <<bucket_list[bucket],
                                                          size.Average, number.Average>>])
              ELSE /\ queries' = Append(queries, objects)
                   /\ lines' = Append(lines, [text |-> "contains no objects",
                                              value |-> bucket_list[bucket]])
    /\ IF bucket = Len(bucket_list)
       THEN profile' = profile + 1 /\ rpc' = "profiles" /\ bucket' = bucket
       ELSE profile' = profile /\ rpc' = "buckets" /\ bucket' = bucket + 1
    /\ UNCHANGED <<outsideReporter, typed, region_name, start_time, end_time, bucket_list>>

\* Line 125: the loop over the profiles ends.
ReporterEnd ==
    /\ rpc = "profiles"
    /\ profile > Len(availableProfiles)
    /\ rpc' = "done"
    /\ UNCHANGED <<outsideReporter, typed, region_name, start_time, end_time, profile,
                   bucket_list, bucket, queries, lines>>

NextReporter ==
    \/ InputRegion
    \/ InputStartTime
    \/ InputEndTime
    \/ NextProfile
    \/ QueryBucket
    \/ ReporterEnd

SpecReporter == InitReporter /\ [][NextReporter]_vars

(***************************************************************************)
(* Vocabulary of the properties, stated on the account, not on the code.   *)
(***************************************************************************)
RouteTables == account.RouteTables
Tables == 1..Len(account.RouteTables)

\* The invocation has ended: it returned a list or an exception left it.
Finished == pc \in {"returned", "raised"}

\* The subnet is in the describe_subnets answer.
InResponse(s) == \E i \in 1..Len(account.Subnets) : account.Subnets[i].SubnetId = s

\* Some route table is explicitly associated with the subnet.
HasExplicitAssociation(s) == \E i \in Tables : s \in ExplicitSubnets(RouteTables[i])

\* Every association names a subnet of the describe_subnets answer.
AssociationsInResponse ==
    \A i \in Tables : \A s \in ExplicitSubnets(RouteTables[i]) : InResponse(s)

\* The VPC of the subnet has a main route table with an internet route.
MainTableHasInternetRoute(s) ==
    \E i \in Tables :
        /\ IsMainTable(RouteTables[i])
        /\ RouteTables[i].VpcId = VpcOf(account.Subnets, s)
        /\ HasInternetRoute(RouteTables[i])

\* The list holds no element twice.
NoDuplicates(list) == \A i, j \in 1..Len(list) : i # j => list[i] # list[j]

\* The locals at the start of the loop, for a describe_subnets answer.
LoopStart(subnets) ==
    [exc |-> "none", vpcSubnets |-> BuildVpcSubnets(subnets),
     candidateSubnets |-> <<>>, publicSubnets |-> <<>>]

(***************************************************************************)
(* C1 .. C10                                                               *)
(***************************************************************************)
\* C1 (as claimed; the code violates it): in a returned list there is no
\* subnet that is explicitly associated with a route table without an
\* internet route, whatever the order of the route tables.
C1_ExplicitPrivateNeverPublic ==
    pc = "returned" =>
        \A s \in SubnetIds, i \in Tables :
            (s \in ExplicitSubnets(RouteTables[i]) /\ ~ HasInternetRoute(RouteTables[i]))
                => s \notin Range(returned)

\* C2 (as claimed; the code violates it): a list returned after both describe
\* calls answered holds every subnet of the answer that has no explicit
\* association and whose VPC has a main table with an internet route,
\* wherever the main entry stands in that table's Associations.
C2_ImplicitPublicIsReturned ==
    (pc = "returned" /\ fault = "none") =>
        \A s \in SubnetIds :
            (InResponse(s) /\ ~ HasExplicitAssociation(s) /\ MainTableHasInternetRoute(s))
                => s \in Range(returned)

\* C3 (as claimed; the code violates it): with a route table whose
\* Associations list is empty, the invocation ends as the loop over the other
\* route tables alone ends: it returns their result, and no exception of the
\* empty table ends it.
C3_EmptyAssociationsContributeNothing ==
    (Finished /\ fault = "none" /\ \E i \in Tables : Len(RouteTables[i].Associations) = 0) =>
        LET others == SelectSeq(RouteTables, LAMBDA rt : Len(rt.Associations) > 0)
            ref == RunLoop(others, LoopStart(account.Subnets))
        IN  IF ref.exc = "none"
            THEN pc = "returned" /\ returned = ref.publicSubnets
            ELSE pc = "raised" /\ exc = ref.exc

\* C4: once describe_route_tables or describe_subnets has raised ClientError,
\* the invocation never ends with an exception, and the list it returns is
\* empty.
C4_ClientErrorReturnsEmpty ==
    fault # "none" =>
        /\ pc # "raised"
        /\ pc = "returned" => returned = <<>>

\* C4 witness: describe_subnets failed in an account whose route tables would
\* make some subnet public, and the empty list was returned.
C4_Witness ==
    /\ pc = "returned"
    /\ fault = "describe_subnets"
    /\ returned = <<>>
    /\ \E i \in Tables :
          ExplicitSubnets(RouteTables[i]) # {} /\ HasInternetRoute(RouteTables[i])

\* C5 (as claimed; the code of list-resources-per-subnet-lambda.py violates
\* it): an invocation in which a describe call raised ClientError ends by
\* returning the empty list.
C5_ListerClientErrorReturnsEmpty ==
    (Finished /\ fault \in {"describe_route_tables", "describe_subnets"}) =>
        (pc = "returned" /\ returned = <<>> /\ exc = "none")

\* C6: every subnet id of a returned list is a SubnetId of the
\* describe_subnets answer.
C6_ReturnedSubnetsAreInResponse ==
    pc = "returned" => \A s \in Range(returned) : InResponse(s)

\* C6 witness: a route table names a subnet that is not in the
\* describe_subnets answer, after another table had put a subnet in the
\* result; the invocation ended without returning a list.
C6_Witness ==
    /\ pc = "raised"
    /\ exc = "ValueError"
    /\ publicSubnets # <<>>
    /\ \E i \in Tables : \E s \in ExplicitSubnets(RouteTables[i]) : ~ InResponse(s)

\* C7 (as claimed; the code violates it): every invocation in which both
\* describe calls answered returns a list, and the list holds every subnet
\* that is explicitly associated with a route table with an internet route.
C7_ExplicitPublicIsReturned ==
    (Finished /\ fault = "none" /\ AssociationsInResponse) =>
        \A s \in SubnetIds, i \in Tables :
            (s \in ExplicitSubnets(RouteTables[i]) /\ HasInternetRoute(RouteTables[i]))
                => (pc = "returned" /\ s \in Range(returned))

\* C8: a returned list holds no subnet that has no explicit association
\* unless the main route table of the subnet's VPC has an internet route.
C8_ImplicitPrivateNeverPublic ==
    pc = "returned" =>
        \A s \in SubnetIds :
            (~ HasExplicitAssociation(s) /\ ~ MainTableHasInternetRoute(s))
                => s \notin Range(returned)

\* C8 witness: a list was returned for an account in which a subnet has no
\* explicit association, its VPC's main table has no internet route, and
\* another route table of the same VPC has one and made a subnet public.
C8_Witness ==
    /\ pc = "returned"
    /\ returned # <<>>
    /\ \E s \in SubnetIds :
          /\ InResponse(s)
          /\ ~ HasExplicitAssociation(s)
          /\ s \notin Range(returned)
          /\ \E i, j \in Tables :
                /\ IsMainTable(RouteTables[i])
                /\ RouteTables[i].Associations[1].Main
                /\ ~ HasInternetRoute(RouteTables[i])
                /\ ~ IsMainTable(RouteTables[j])
                /\ HasInternetRoute(RouteTables[j])
                /\ RouteTables[i].VpcId = VpcOf(account.Subnets, s)
                /\ RouteTables[j].VpcId = VpcOf(account.Subnets, s)

\* C9 (as claimed; the code violates it): a returned list holds no subnet id
\* twice.
C9_ReturnedHasNoDuplicates == pc = "returned" => NoDuplicates(returned)

\* C10: a second invocation on the same account, in which the describe calls
\* answered or failed as in the first, ends as the first did: the same list
\* returned, or the same exception.
C10_SecondRunEqualsFirst ==
    (run = "second" /\ Finished /\ fault = firstOutcome.fault) =>
        Outcome = firstOutcome

\* C10 witness: both invocations returned the same list of public subnets,
\* and the pool of the first was consumed by explicit associations.
C10_Witness ==
    /\ run = "second"
    /\ pc = "returned"
    /\ fault = "none"
    /\ firstOutcome.pc = "returned"
    /\ firstOutcome.fault = "none"
    /\ returned # <<>>
    /\ returned = firstOutcome.returned
    /\ \E i \in Tables : ExplicitSubnets(RouteTables[i]) # {}


(***************************************************************************)
(* C11, C15, C16, C17: the lambda_handlers, under SpecHandlers.            *)
(***************************************************************************)
\* C11: in the EC2 and the ELB evaluator, when describe_route_tables or
\* describe_subnets has failed, an evaluation is submitted only after the
\* retrieval error was printed: the error message is the first line the
\* invocation has printed, before the line of the compliance value.
C11_RetrievalErrorLoggedBeforeEvaluation ==
    (fault # "none" /\ evaluations # <<>>) =>
        /\ printed # <<>>
        /\ printed[1] = ErrorMessage

\* C11 witness: the retrieval failed, the error was printed, and a COMPLIANT
\* evaluation was submitted for a resource of the evaluator's type.
C11_Witness ==
    /\ fault = "describe_route_tables"
    /\ hpc = "done"
    /\ event.resourceType \in {Ec2InstanceType, LoadBalancerType}
    /\ Len(evaluations) = 1
    /\ evaluations[1].ComplianceType = "COMPLIANT"
    /\ printed = <<ErrorMessage, ComplianceMessage("COMPLIANT")>>

\* C15: every evaluation the EC2 handler submits is NOT_APPLICABLE exactly
\* when the resource is not an AWS::EC2::Instance; for an instance it is
\* NON_COMPLIANT exactly when the subnet getEc2InstanceSubnet returned is in
\* the list getPublicSubnets returned, and COMPLIANT otherwise, also when
\* that subnet is 'NULL'.
C15_Ec2ComplianceType ==
    lambdaFn = "ec2" =>
        \A i \in 1..Len(evaluations) :
            LET type == evaluations[i].ComplianceType IN
            /\ type \in {"NOT_APPLICABLE", "NON_COMPLIANT", "COMPLIANT"}
            /\ type = "NOT_APPLICABLE" <=> event.resourceType # "AWS::EC2::Instance"
            /\ event.resourceType = "AWS::EC2::Instance" =>
                  (type = "NON_COMPLIANT" <=> \E k \in 1..Len(pubSubs) : pubSubs[k] = myEc2Subnet)
            /\ (event.resourceType = "AWS::EC2::Instance" /\ myEc2Subnet = "NULL") =>
                  type = "COMPLIANT"

\* C15 witness: an instance without reservation, so with subnet 'NULL', was
\* evaluated COMPLIANT in an account that has public subnets.
C15_Witness ==
    /\ lambdaFn = "ec2"
    /\ hpc = "done"
    /\ event.resourceType = "AWS::EC2::Instance"
    /\ myEc2Subnet = "NULL"
    /\ pubSubs # <<>>
    /\ Len(evaluations) = 1
    /\ evaluations[1].ComplianceType = "COMPLIANT"

\* C16 (as claimed; the code violates it): every evaluation the ELB handler
\* submits for a resource that is not an
\* AWS::ElasticLoadBalancingV2::LoadBalancer is NOT_APPLICABLE.
C16_ElbOtherTypeNotApplicable ==
    (lambdaFn = "elb" /\ event.resourceType # "AWS::ElasticLoadBalancingV2::LoadBalancer") =>
        \A i \in 1..Len(evaluations) : evaluations[i].ComplianceType = "NOT_APPLICABLE"

\* C17 (as claimed; the code violates it): an invocation of the EC2 handler
\* that has ended has submitted exactly one evaluation, and none submits more
\* than one.
C17_Ec2ExactlyOneEvaluation ==
    lambdaFn = "ec2" =>
        /\ Len(evaluations) <= 1
        /\ hpc \in {"done", "raised"} => Len(evaluations) = 1


(***************************************************************************)
(* C13, C14: getPublicSubnets against the association rules.               *)
(***************************************************************************)
\* The subnets of the describe_subnets answer that are public by the rules:
\* the route table a subnet is explicitly associated with, or without such a
\* table the main table of its VPC, has an internet route.
GovernedPublic ==
    {s \in SubnetIds :
        /\ InResponse(s)
        /\ IF HasExplicitAssociation(s)
           THEN \E i \in Tables :
                    s \in ExplicitSubnets(RouteTables[i]) /\ HasInternetRoute(RouteTables[i])
           ELSE MainTableHasInternetRoute(s)}

\* The route tables of the account in the order p.
Permuted(p) == [i \in Tables |-> RouteTables[p[i]]]

\* C13 (as claimed; the code violates it): a list returned after both
\* describe calls answered holds exactly the subnets that are public by the
\* rules, and the loop run over any other order of the same route tables
\* ends with the same set.
C13_OrderIndependentGovernedSet ==
    (pc = "returned" /\ fault = "none") =>
        /\ Range(returned) = GovernedPublic
        /\ \A p \in Permutations(Tables) :
              LET other == RunLoop(Permuted(p), LoopStart(account.Subnets))
              IN  other.exc = "none" /\ Range(other.publicSubnets) = Range(returned)

\* C14 (as claimed; the code violates it), under SpecLister: where the
\* lister's getPublicSubnets returns and the evaluators' loop over the same
\* answers ends without exception, both give the same set; and a subnet
\* explicitly associated with a route table without internet route, in a VPC
\* whose main table has one, is in neither.
C14_ListerEqualsEvaluator ==
    (pc = "returned" /\ fault = "none") =>
        LET evaluator == RunLoop(RouteTables, LoopStart(account.Subnets))
        IN  evaluator.exc = "none" =>
              /\ Range(returned) = Range(evaluator.publicSubnets)
              /\ \A s \in SubnetIds :
                    (/\ InResponse(s)
                     /\ MainTableHasInternetRoute(s)
                     /\ \E i \in Tables : s \in ExplicitSubnets(RouteTables[i])
                     /\ \A i \in Tables : s \in ExplicitSubnets(RouteTables[i])
                                             => ~ HasInternetRoute(RouteTables[i]))
                        => s \notin Range(returned) \cup Range(evaluator.publicSubnets)


(***************************************************************************)
(* C12: the auto-tagger, under SpecTagger.                                 *)
(***************************************************************************)
\* C12 (as claimed; the code violates it): for every report of statusCode
\* 500, 'No tags applied to Resource ID', that lambda_handler has printed, no
\* tag of resource_tags is applied to the instance of the report or to a
\* volume attached to it.
C12_FailureReportMeansNothingTagged ==
    \A i \in 1..Len(reports) :
        reports[i].statusCode = "500" =>
            \A r \in {reports[i].id}
                     \cup {tagEnv.Volumes[reports[i].id][k].VolumeId :
                              k \in 1..Len(tagEnv.Volumes[reports[i].id])} :
                \A k \in 1..Len(resource_tags) : resource_tags[k] \notin Range(applied[r])


(***************************************************************************)
(* C18: the S3 reporter, under SpecReporter.                               *)
(***************************************************************************)
\* C18 (as claimed; the code violates it): once a date prompt is answered,
\* the date of the window is the typed text when it matches YYYY-MM-DD and
\* the default (2020-10-01, 2020-10-02) only when the text is empty or does
\* not match, followed by T00:00:00Z for the start and T23:59:59Z for the
\* end; every query is made with that window.
C18_ValidDateIsUsed ==
    /\ rpc \notin {"region", "start"} =>
          start_time = (IF MatchesDate(typed.start) THEN typed.start ELSE DefaultStart)
                       \o StartSuffix
    /\ rpc \notin {"region", "start", "end"} =>
          end_time = (IF MatchesDate(typed.end) THEN typed.end ELSE DefaultEnd)
                     \o EndSuffix
    /\ \A q \in 1..Len(queries) :
          queries[q].StartTime = start_time /\ queries[q].EndTime = end_time

====
